---- MODULE Spec2Model ----
(***************************************************************************)
(* A model of libproc-rs (src/libproc/proc_pid.rs): the safe wrappers      *)
(* around the libproc query entry points.  One caller issues the queries;  *)
(* the kernel is the environment.  Every wrapper is an action that takes   *)
(* the kernel's answer (its integer return and what it wrote into the      *)
(* buffer) as a parameter:                                                 *)
(*   Spec      draws the answer from everything the call shape permits     *)
(*             (any return code, any bytes, at most the size passed);      *)
(*   HostSpec  draws it from a host with a process table, answering as     *)
(*             the interface is documented to answer;                      *)
(*   DecodeSpec    applies procinfo's decoding of a socket record          *)
(*             (src/bin/procinfo.rs) to records drawn from bounded sets;   *)
(*   ProcinfoSpec  runs procinfo's loop over the pids and descriptors of   *)
(*             the host, one library call per step;                        *)
(*   ThreadSpec    lets two threads issue queries at once, each into a     *)
(*             buffer it allocates itself.                                 *)
(***************************************************************************)
EXTENDS Integers, Sequences, FiniteSets

(***************************************************************************)
(* Bounds of the model.                                                    *)
(***************************************************************************)
\* process ids of the host are 1..MaxPid
MaxPid == 3
\* the kernel writes at most this many whole elements into a list buffer
MaxElems == 2
\* the kernel writes at most this many bytes into a text buffer
MaxText == 3

(***************************************************************************)
(* Program constants.                                                      *)
(***************************************************************************)
MAXPATHLEN == 1024
PROC_PIDPATHINFO_MAXSIZE == 4 * MAXPATHLEN

\* enum ProcType
ProcAllPIDS == 1
ProcUIDOnly == 4

Min(a, b) == IF a <= b THEN a ELSE b
Max(a, b) == IF a >= b THEN a ELSE b

(***************************************************************************)
(* Flavor registry: the record types, their flavor codes and byte sizes.   *)
(***************************************************************************)
PIDInfoTypes == {"TaskAllInfo", "BSDInfo", "TaskInfo", "ThreadInfo", "WorkQueueInfo"}
ListPIDInfoTypes == {"ListFDs", "ListThreads"}
PIDFDInfoTypes == {"SocketFDInfo"}

\* PidInfoFlavor with ThreadInfo bound to the code of TaskInfo
PidInfoFlavor_Shared(T) ==
    CASE T = "ListFDs"       -> 1
      [] T = "TaskAllInfo"   -> 2
      [] T = "BSDInfo"       -> 3
      [] T = "TaskInfo"      -> 4
      [] T = "ThreadInfo"    -> 4
      [] T = "ListThreads"   -> 6
      [] T = "WorkQueueInfo" -> 12

\* enum PidInfoFlavor, through the impls of PIDInfo::flavor / ListPIDInfo::flavor
PidInfoFlavor(T) ==
    CASE T = "ListFDs"       -> 1
      [] T = "TaskAllInfo"   -> 2
      [] T = "BSDInfo"       -> 3
      [] T = "TaskInfo"      -> 4
      [] T = "ThreadInfo"    -> 5
      [] T = "ListThreads"   -> 6
      [] T = "WorkQueueInfo" -> 12

\* enum PidFDInfoFlavor, through the impl of PIDFDInfo::flavor
PidFDInfoFlavor(T) ==
    CASE T = "SocketFDInfo" -> 3

\* mem::size_of::<T>() of the #[repr(C)] records
SizeOf(T) ==
    CASE T = "TaskInfo"      -> 96
      [] T = "BSDInfo"       -> 136
      [] T = "TaskAllInfo"   -> 232
      [] T = "ThreadInfo"    -> 112
      [] T = "WorkQueueInfo" -> 16
      [] T = "SocketFDInfo"  -> 792

\* mem::size_of::<T::Item>(): ProcFDInfo {i32, u32} and u64
SizeOfItem(T) ==
    CASE T = "ListFDs"     -> 8
      [] T = "ListThreads" -> 8

\* mem::size_of::<u32>(), the element of the listpids buffer
SizeOfU32 == 4

(***************************************************************************)
(* Fixed records.  The model follows a few fields of each record; a field  *)
(* is given by its byte offset and width in the #[repr(C)] layout.         *)
(***************************************************************************)
Fields(T) ==
    CASE T = "TaskInfo"      -> {"pti_threadnum"}
      [] T = "BSDInfo"       -> {"pbi_pid", "pbi_nfiles"}
      [] T = "TaskAllInfo"   -> {"pbi_pid", "pti_threadnum"}
      [] T = "ThreadInfo"    -> {"pth_run_state"}
      [] T = "WorkQueueInfo" -> {"pwq_nthreads"}
      [] T = "SocketFDInfo"  -> {"soi_protocol", "soi_kind", "insi_lport", "s_addr"}

FieldOffset(T, f) ==
    CASE T = "TaskInfo"      /\ f = "pti_threadnum" -> 84
      [] T = "BSDInfo"       /\ f = "pbi_pid"       -> 12
      [] T = "BSDInfo"       /\ f = "pbi_nfiles"    -> 96
      [] T = "TaskAllInfo"   /\ f = "pbi_pid"       -> 12
      [] T = "TaskAllInfo"   /\ f = "pti_threadnum" -> 220
      [] T = "ThreadInfo"    /\ f = "pth_run_state" -> 24
      [] T = "WorkQueueInfo" /\ f = "pwq_nthreads"  -> 0
      [] T = "SocketFDInfo"  /\ f = "soi_protocol"  -> 180
      [] T = "SocketFDInfo"  /\ f = "soi_kind"      -> 256
      [] T = "SocketFDInfo"  /\ f = "insi_lport"    -> 268
      [] T = "SocketFDInfo"  /\ f = "s_addr"        -> 324

\* every followed field is a 32-bit integer
FieldWidth == 4

\* T::default(): every field zero
DefaultRecord(T) == [f \in Fields(T) |-> 0]

\* Overwrite with the write of the kernel lost: the record as it was
Overwrite_None(T, rec, image, n) == rec

\* Overwrite with the whole image taken, whatever the kernel wrote of it
Overwrite_Whole(T, rec, image, n) == image

\* The record after the kernel wrote the first n bytes of `image` over it.
Overwrite(T, rec, image, n) ==
    [f \in Fields(T) |->
        IF FieldOffset(T, f) + FieldWidth <= n THEN image[f] ELSE rec[f]]

(***************************************************************************)
(* Results: io::Result<T>, or the panic of a failed assert!.               *)
(***************************************************************************)
Ok(v) == [kind |-> "Ok", val |-> v]
\* Err(Error::last_os_error())
OsError == [kind |-> "Err", val |-> "last_os_error"]
\* Err(Error::new(ErrorKind::Other, "Invalid UTF-8 sequence: ..."))
Utf8Error == [kind |-> "Err", val |-> "Other: Invalid UTF-8 sequence"]
Panic == [kind |-> "Panic", val |-> "assertion failed"]
NoResult == [kind |-> "None", val |-> "-"]

VARIABLES
    pc,      \* "idle"; "listpids_fill": listpids between its two queries;
             \* "returned": the caller holds the result; "panicked"
    call,    \* the wrapper called last: [fn, T, pid, arg]; for listpids pid
             \* holds proc_types and arg holds info
    calls,   \* the kernel queries that call issued, in order
    buffer,  \* the buffer of that call: [cap, bytes, data]; for a record also
             \* wrote, the image of which the kernel wrote the first `bytes` bytes
    result,  \* what the call returned
    procs,   \* the host's process table: the live process ids
    listener,\* the host's sockets: the port the caller's TCP listener is bound to
    prog,    \* procinfo (src/bin/procinfo.rs): where it stands in its loops
    output,  \* procinfo: what it printed last
    th,      \* two threads calling the library: for each its call in progress
    heap     \* the memory the threads' buffers are allocated in

\* the state of the library's callers: no library call touches it
outside == <<listener, prog, output, th, heap>>

vars == <<pc, call, calls, buffer, result, procs, outside>>

Pids == 1..MaxPid
\* the pids a caller may pass: the host's range and the invalid -1
PidArgs == Pids \cup {-1}

NoBuffer == [cap |-> 0, bytes |-> 0, data |-> <<>>]

\* procinfo before its list of processes: no process, no descriptor at hand
NoProg == [at |-> "listpids", pids |-> <<>>, fds |-> <<>>]
\* nothing printed; `read` is the variant through which the union was read
NoOutput == [stream |-> "none", line |-> "", args |-> <<>>, read |-> "none"]

Threads == {1, 2}
\* the addresses a buffer may be allocated at
Addrs == 1..2
\* what an address holds: a record, or the elements of a Vec
NoRecord == [none |-> 0]
Free == [kind |-> "free", rec |-> NoRecord, data |-> <<>>]
NoAnswer == [ret |-> 0, n |-> 0]
Idle == [pc |-> "idle", fn |-> "none", T |-> "-", arg |-> 0, ptr |-> 0,
         answer |-> NoAnswer, result |-> NoResult]

Init ==
    /\ pc = "idle"
    /\ call = [fn |-> "none", T |-> "-", pid |-> 0, arg |-> 0]
    /\ calls = <<>>
    /\ buffer = NoBuffer
    /\ result = NoResult
    /\ procs = Pids
    /\ listener = 65535
    /\ prog = NoProg
    /\ output = NoOutput
    /\ th = [t \in Threads |-> Idle]
    /\ heap = [a \in Addrs |-> Free]

\* One kernel query as the caller issued it and as the kernel answered it.
Query(fn, sel, flavor, arg, buf, size, ret) ==
    [fn |-> fn, sel |-> sel, flavor |-> flavor, arg |-> arg,
     buf |-> buf, size |-> size, ret |-> ret, live |-> procs]

(***************************************************************************)
(* pidinfo<T>(pid, arg) and pidfdinfo<T>(pid, fd).                         *)
(* The kernel's answer k = [ret, n, image]: it returned ret after writing  *)
(* the first n bytes of image into the buffer.                             *)
(***************************************************************************)
\* RecordResult with the test written as ret < 0
RecordResult_ZeroIsSuccess(ret, rec) == IF ret < 0 THEN OsError ELSE Ok(rec)

\* if ret <= 0 { Err(last_os_error()) } else { Ok(pidinfo) }
RecordResult(ret, rec) == IF ret <= 0 THEN OsError ELSE Ok(rec)

pidinfo(T, pid, arg, k) ==
    /\ pc = "idle"
    /\ LET flavor == PidInfoFlavor(T)
           buffer_size == SizeOf(T)
           rec == Overwrite(T, DefaultRecord(T), k.image, k.n)
       IN /\ call' = [fn |-> "pidinfo", T |-> T, pid |-> pid, arg |-> arg]
          /\ calls' = <<Query("proc_pidinfo", pid, flavor, arg, "ptr", buffer_size, k.ret)>>
          /\ buffer' = [cap |-> 1, bytes |-> k.n, data |-> <<rec>>, wrote |-> k.image]
          /\ result' = RecordResult(k.ret, rec)
    /\ pc' = "returned"
    /\ UNCHANGED <<procs, outside>>

pidfdinfo(T, pid, fd, k) ==
    /\ pc = "idle"
    /\ LET flavor == PidFDInfoFlavor(T)
           buffer_size == SizeOf(T)
           rec == Overwrite(T, DefaultRecord(T), k.image, k.n)
       IN /\ call' = [fn |-> "pidfdinfo", T |-> T, pid |-> pid, arg |-> fd]
          /\ calls' = <<Query("proc_pidfdinfo", pid, flavor, fd, "ptr", buffer_size, k.ret)>>
          /\ buffer' = [cap |-> 1, bytes |-> k.n, data |-> <<rec>>, wrote |-> k.image]
          /\ result' = RecordResult(k.ret, rec)
    /\ pc' = "returned"
    /\ UNCHANGED <<procs, outside>>

(***************************************************************************)
(* libversion().  The kernel's answer k = [ret, major, minor].             *)
(***************************************************************************)
\* VersionResult with the convention of the other queries: positive is success
VersionResult_PositiveIsSuccess(ret, major, minor) ==
    IF ret <= 0 THEN OsError ELSE Ok(<<major, minor>>)

\* if ret == 0 { Ok((major, minor)) } else { Err(last_os_error()) }
VersionResult(ret, major, minor) ==
    IF ret = 0 THEN Ok(<<major, minor>>) ELSE OsError

libversion(k) ==
    /\ pc = "idle"
    /\ call' = [fn |-> "libversion", T |-> "-", pid |-> 0, arg |-> 0]
    /\ calls' = <<Query("proc_libversion", 0, 0, 0, "ptr", 0, k.ret)>>
    /\ buffer' = [cap |-> 2, bytes |-> 0, data |-> <<k.major, k.minor>>]
    /\ result' = VersionResult(k.ret, k.major, k.minor)
    /\ pc' = "returned"
    /\ UNCHANGED <<procs, outside>>

(***************************************************************************)
(* Vectors.  A Vec of `len` elements whose leading elements `init` were    *)
(* written by the kernel; the elements after them are memory nobody wrote. *)
(***************************************************************************)
Vec(len, written) ==
    [len |-> len, init |-> SubSeq(written, 1, Min(len, Len(written)))]

\* Vec::truncate(n): no effect when n is not below the current length
Truncate(v, n) == IF n >= v.len THEN v ELSE Vec(n, v.init)

(***************************************************************************)
(* listpidinfo<T>(pid, max_len).  The kernel's answer k = [ret, n, data]:  *)
(* it returned ret after writing n bytes, the whole elements data first.   *)
(***************************************************************************)
\* listpidinfo without its assert!
listpidinfo_assert_Missing(max_len) == TRUE

\* assert!(max_len <= PROC_PIDPATHINFO_MAXSIZE)
listpidinfo_assert(max_len) == max_len <= PROC_PIDPATHINFO_MAXSIZE

\* ret as usize / mem::size_of::<T::Item>()
actual_len(T, ret) == ret \div SizeOfItem(T)

\* ListResult with a zero return taken for a failure
ListResult_ZeroIsError(T, ret, buf) ==
    IF ret <= 0 THEN OsError ELSE Ok(Truncate(buf, actual_len(T, ret)))

\* ListResult without the truncation: the length is taken to be max_len
ListResult_NoTruncate(T, ret, buf) ==
    IF ret < 0 THEN OsError
    ELSE IF ret = 0 THEN Ok(Vec(0, <<>>))
    ELSE Ok(buf)

ListResult(T, ret, buf) ==
    IF ret < 0 THEN OsError
    ELSE IF ret = 0 THEN Ok(Vec(0, <<>>))
    ELSE Ok(Truncate(buf, actual_len(T, ret)))

\* The byte size listpidinfo passes for a buffer of max_len elements.
ListBufferSize(T, max_len) == SizeOfItem(T) * max_len

listpidinfo(T, pid, max_len, k) ==
    /\ pc = "idle"
    /\ call' = [fn |-> "listpidinfo", T |-> T, pid |-> pid, arg |-> max_len]
    /\ IF ~listpidinfo_assert(max_len)
       THEN /\ calls' = <<>>
            /\ buffer' = NoBuffer
            /\ result' = Panic
            /\ pc' = "panicked"
       ELSE LET flavor == PidInfoFlavor(T)
                buffer_size == ListBufferSize(T, max_len)
                buf == Vec(max_len, k.data)
            IN /\ calls' = <<Query("proc_pidinfo", pid, flavor, 0, "ptr", buffer_size, k.ret)>>
               /\ buffer' = [cap |-> max_len, bytes |-> k.n, data |-> k.data]
               /\ result' = ListResult(T, k.ret, buf)
               /\ pc' = "returned"
    /\ UNCHANGED <<procs, outside>>

(***************************************************************************)
(* listpids(proc_types, info): the probe query, then the fill query.       *)
(***************************************************************************)
\* buffer_size as usize / mem::size_of::<u32>()
capacity(buffer_size) == buffer_size \div SizeOfU32

\* items_count without the discounted entry
items_count_NoDiscount(ret) == ret \div SizeOfU32

\* items_count with two entries discounted
items_count_DiscountTwo(ret) ==
    IF ret \div SizeOfU32 >= 2 THEN ret \div SizeOfU32 - 2 ELSE 0

\* (ret as usize / mem::size_of::<u32>()).checked_sub(1).unwrap_or(0)
items_count(ret) ==
    IF ret \div SizeOfU32 >= 1 THEN ret \div SizeOfU32 - 1 ELSE 0

\* PidsResult with the length taken from the probe: the capacity allocated
PidsResult_ProbeLength(ret, written) ==
    IF ret <= 0 THEN OsError ELSE Ok(Vec(buffer.cap, written))

\* if ret <= 0 { Err(last_os_error()) } else { pids.set_len(items_count); Ok(pids) }
PidsResult(ret, written) ==
    IF ret <= 0 THEN OsError ELSE Ok(Vec(items_count(ret), written))

\* the size the fill query is given: buffer_size as u32
FillSize(buffer_size) == buffer_size

\* ProbeFailed with the test written as buffer_size < 0
ProbeFailed_NegativeOnly(buffer_size) == buffer_size < 0

\* if buffer_size <= 0 { return Err(last_os_error()) }
ProbeFailed(buffer_size) == buffer_size <= 0

listpids_probe(proc_types, info, r) ==
    /\ pc = "idle"
    /\ call' = [fn |-> "listpids", T |-> "-", pid |-> proc_types, arg |-> info]
    /\ calls' = <<Query("proc_listpids", proc_types, 0, info, "null", 0, r)>>
    /\ IF ProbeFailed(r)
       THEN /\ result' = OsError
            /\ buffer' = NoBuffer
            /\ pc' = "returned"
       ELSE /\ result' = NoResult
            /\ buffer' = [cap |-> capacity(r), bytes |-> 0, data |-> <<>>]
            /\ pc' = "listpids_fill"
    /\ UNCHANGED <<procs, outside>>

\* The size listpids_fill hands to the kernel; the answer is drawn for it.
PendingFillSize == IF pc = "listpids_fill" THEN FillSize(calls[1].ret) ELSE 0

listpids_fill(k) ==
    /\ pc = "listpids_fill"
    /\ calls' = Append(calls, Query("proc_listpids", call.pid, 0, call.arg,
                                    "ptr", PendingFillSize, k.ret))
    /\ buffer' = [buffer EXCEPT !.bytes = k.n, !.data = k.data]
    /\ result' = PidsResult(k.ret, k.data)
    /\ pc' = "returned"
    /\ UNCHANGED <<call, procs, outside>>

(***************************************************************************)
(* Text queries: regionfilename, pidpath, name.  The kernel's answer       *)
(* k = [ret, n, data]: it returned ret after writing the n bytes data.     *)
(***************************************************************************)
\* PROC_PIDPATHINFO_MAXSIZE - 1, the capacity of every text buffer
TextCapacity == PROC_PIDPATHINFO_MAXSIZE - 1

Continuation(b) == b >= 128 /\ b <= 191

\* String::from_utf8 accepts exactly the well-formed UTF-8 byte sequences.
RECURSIVE Utf8Valid(_)
Utf8Valid(s) ==
    IF s = <<>> THEN TRUE
    ELSE LET b == s[1]
             n == Len(s)
         IN IF b < 128 THEN Utf8Valid(Tail(s))
            ELSE IF b >= 194 /\ b <= 223
            THEN /\ n >= 2
                 /\ Continuation(s[2])
                 /\ Utf8Valid(SubSeq(s, 3, n))
            ELSE IF b >= 224 /\ b <= 239
            THEN /\ n >= 3
                 /\ Continuation(s[2])
                 /\ (b = 224 => s[2] >= 160)
                 /\ (b = 237 => s[2] <= 159)
                 /\ Continuation(s[3])
                 /\ Utf8Valid(SubSeq(s, 4, n))
            ELSE IF b >= 240 /\ b <= 244
            THEN /\ n >= 4
                 /\ Continuation(s[2])
                 /\ (b = 240 => s[2] >= 144)
                 /\ (b = 244 => s[2] <= 143)
                 /\ Continuation(s[3])
                 /\ Continuation(s[4])
                 /\ Utf8Valid(SubSeq(s, 5, n))
            ELSE FALSE

\* from_utf8 as String::from_utf8_lossy: ill-formed text becomes U+FFFD
from_utf8_lossy(v) == IF Utf8Valid(v.init) THEN Ok(v.init) ELSE Ok(<<239, 191, 189>>)

\* match String::from_utf8(buf) { Ok(s) => Ok(s), Err(e) => Err(Error::new(..)) }
from_utf8(v) == IF Utf8Valid(v.init) THEN Ok(v.init) ELSE Utf8Error

\* TextResult with the test written as ret < 0: an empty text for a return of 0
TextResult_ZeroIsSuccess(ret, written) ==
    IF ret < 0 THEN OsError ELSE from_utf8(Vec(ret, written))

\* if ret <= 0 { Err(last_os_error()) } else { buf.set_len(ret); from_utf8(buf) }
TextResult(ret, written) ==
    IF ret <= 0 THEN OsError ELSE from_utf8(Vec(ret, written))

TextQuery(fn, kfn, pid, arg, k) ==
    /\ pc = "idle"
    /\ call' = [fn |-> fn, T |-> "-", pid |-> pid, arg |-> arg]
    /\ calls' = <<Query(kfn, pid, 0, arg, "ptr", TextCapacity, k.ret)>>
    /\ buffer' = [cap |-> TextCapacity, bytes |-> k.n, data |-> k.data]
    /\ result' = TextResult(k.ret, k.data)
    /\ pc' = "returned"
    /\ UNCHANGED <<procs, outside>>

regionfilename(pid, address, k) ==
    TextQuery("regionfilename", "proc_regionfilename", pid, address, k)

pidpath(pid, k) == TextQuery("pidpath", "proc_pidpath", pid, 0, k)

name(pid, k) == TextQuery("name", "proc_name", pid, 0, k)

(***************************************************************************)
(* The caller consumes the result: every value of a call is transient and  *)
(* nothing of it is kept for the next call.                                *)
(***************************************************************************)
drop ==
    /\ pc = "returned"
    /\ pc' = "idle"
    /\ call' = [fn |-> "none", T |-> "-", pid |-> 0, arg |-> 0]
    /\ calls' = <<>>
    /\ buffer' = NoBuffer
    /\ result' = NoResult
    /\ UNCHANGED <<procs, outside>>

(***************************************************************************)
(* The kernel as the call shape alone constrains it: any return code, and  *)
(* on success as many bytes written as returned, never more than the size  *)
(* it was passed.                                                          *)
(***************************************************************************)
\* the values the kernel may store in a followed field
FieldVals == 1..MaxPid

\* the byte counts at which a write into a T may stop
WrittenSizes(T) == {FieldOffset(T, f) + FieldWidth : f \in Fields(T)} \cup {SizeOf(T)}

AnyRecordAnswer(T) ==
    {[ret |-> r, n |-> 0, image |-> DefaultRecord(T)] : r \in {-1, 0}}
    \cup {[ret |-> n, n |-> n, image |-> im] :
            n \in WrittenSizes(T), im \in [Fields(T) -> FieldVals]}

AnyVersionAnswer ==
    {[ret |-> r, major |-> a, minor |-> b] : r \in {-1, 0, 1}, a \in 1..2, b \in 1..2}

SeqsUpTo(S, n) == UNION {[1..m -> S] : m \in 0..n}

\* the elements of a list query: ProcFDInfo records, thread ids
ElemVals(T) ==
    CASE T = "ListFDs"     -> {[proc_fd |-> 0, proc_fdtype |-> 1],
                               [proc_fd |-> 3, proc_fdtype |-> 2]}
      [] T = "ListThreads" -> {101, 102}

\* the bytes of a last, partly written element
Partial(size) == {0, 1, size - 1}

AnyListAnswer(T, buffer_size) ==
    {[ret |-> -1, n |-> 0, data |-> <<>>]}
    \cup {k \in {[ret |-> SizeOfItem(T) * Len(d) + p,
                  n |-> SizeOfItem(T) * Len(d) + p,
                  data |-> d] :
                    d \in SeqsUpTo(ElemVals(T), MaxElems),
                    p \in Partial(SizeOfItem(T))} :
            k.n <= buffer_size}

\* the entries of a pid list: process ids and the zero entry
PidVals == 0..MaxPid

\* what the probe query of listpids may return: an error or a byte count
MaxListBytes == SizeOfU32 * (MaxElems + 1)
AnyProbeAnswer == -1..MaxListBytes

AnyPidsAnswer(size) ==
    {[ret |-> r, n |-> 0, data |-> <<>>] : r \in {-1, 0}}
    \cup UNION {{[ret |-> n, n |-> n, data |-> d] : d \in [1..(n \div SizeOfU32) -> PidVals]} :
                  n \in 1..size}

\* bytes of text: 'A', the two bytes of U+00E9, and a byte no UTF-8 text holds
TextBytes == {65, 195, 169, 255}

AnyTextAnswer ==
    {[ret |-> r, n |-> 0, data |-> <<>>] : r \in {-1, 0}}
    \cup UNION {{[ret |-> r, n |-> Len(d), data |-> d] : r \in 1..Len(d)} :
                  d \in SeqsUpTo(TextBytes, MaxText)}

(***************************************************************************)
(* The inputs a caller passes.                                             *)
(***************************************************************************)
ProcTypes == {ProcAllPIDS, ProcUIDOnly}
MaxLens == 0..(MaxElems + 1) \cup {PROC_PIDPATHINFO_MAXSIZE, PROC_PIDPATHINFO_MAXSIZE + 1}

Next ==
    \/ /\ pc = "idle"
       /\ \E T \in PIDInfoTypes, pid \in PidArgs :
             \E k \in AnyRecordAnswer(T) : pidinfo(T, pid, 0, k)
    \/ /\ pc = "idle"
       /\ \E T \in PIDFDInfoTypes, pid \in PidArgs, fd \in {3} :
             \E k \in AnyRecordAnswer(T) : pidfdinfo(T, pid, fd, k)
    \/ /\ pc = "idle"
       /\ \E k \in AnyVersionAnswer : libversion(k)
    \/ /\ pc = "idle"
       /\ \E T \in ListPIDInfoTypes, pid \in PidArgs, max_len \in MaxLens :
             \E k \in AnyListAnswer(T, ListBufferSize(T, max_len)) :
                 listpidinfo(T, pid, max_len, k)
    \/ /\ pc = "idle"
       /\ \E proc_types \in ProcTypes, r \in AnyProbeAnswer :
             listpids_probe(proc_types, 0, r)
    \/ /\ pc = "listpids_fill"
       /\ \E k \in AnyPidsAnswer(PendingFillSize) : listpids_fill(k)
    \/ /\ pc = "idle"
       /\ \E pid \in PidArgs, k \in AnyTextAnswer : regionfilename(pid, 0, k)
    \/ /\ pc = "idle"
       /\ \E pid \in PidArgs, k \in AnyTextAnswer : pidpath(pid, k)
    \/ /\ pc = "idle"
       /\ \E pid \in PidArgs, k \in AnyTextAnswer : name(pid, k)
    \/ drop

Spec == Init /\ [][Next]_vars

(***************************************************************************)
(* The host: a process table that changes under the caller, and a kernel   *)
(* that answers every query as the interface documents it.                 *)
(***************************************************************************)
\* the calling process; it outlives its own calls
Self == 1

spawn(p) ==
    /\ p \notin procs
    /\ procs' = procs \cup {p}
    /\ UNCHANGED <<pc, call, calls, buffer, result, outside>>

exit(p) ==
    /\ p \in procs
    /\ p # Self
    /\ procs' = procs \ {p}
    /\ UNCHANGED <<pc, call, calls, buffer, result, outside>>

\* let _listener = TcpListener::bind("127.0.0.1:65535"): the caller binds its
\* listener, between two of its calls
bind(p) ==
    /\ pc = "idle"
    /\ listener # p
    /\ listener' = p
    /\ UNCHANGED <<pc, call, calls, buffer, result, procs, prog, output, th, heap>>

\* the ports the caller binds its listener to
BindPorts == {80, 255, 256, 8080, 65535}

\* the open files of process p: descriptor 0 a vnode, descriptors 1..p sockets
HostFDs(p) ==
    [i \in 1..(p + 1) |-> [proc_fd |-> i - 1, proc_fdtype |-> IF i = 1 THEN 1 ELSE 2]]

\* descriptor 1 of a process is a TCP socket bound on 127.0.0.1, the caller's
\* to the port of its listener; the other sockets are unix domain sockets
HostSocket(pid, fd) ==
    IF fd = 1
    THEN [kind |-> 2, protocol |-> 6, port |-> IF pid = Self THEN listener ELSE 8080,
          address |-> <<127, 0, 0, 1>>]
    ELSE [kind |-> 3, protocol |-> 0, port |-> 0, address |-> <<0, 0, 0, 0>>]

\* a port in network byte order, as the integer the host reads there
NetworkOrder16(p) == (256 * (p % 256)) + (p \div 256)

\* an address in network byte order, as the integer the host reads there
NetworkOrder32(a) ==
    ((a[1] + (256 * a[2])) + (65536 * a[3]))
        + (16777216 * (IF a[4] >= 128 THEN a[4] - 256 ELSE a[4]))

\* the socket record of a descriptor: ports and addresses in network byte order
HostSocketImage(pid, fd) ==
    LET so == HostSocket(pid, fd)
    IN [soi_protocol |-> so.protocol,
        soi_kind     |-> so.kind,
        insi_lport   |-> NetworkOrder16(so.port),
        s_addr       |-> NetworkOrder32(so.address)]

\* the threads of process p
HostThreads(p) == [i \in 1..(1 + (p % 2)) |-> (100 * p) + i]

HostItems(T, p) ==
    CASE T = "ListFDs"     -> HostFDs(p)
      [] T = "ListThreads" -> HostThreads(p)

\* what a list query has to report for pid on a host whose live processes are
\* `live`: nothing for a process that is gone
available_count(T, pid, live) == IF pid \in live THEN Len(HostItems(T, pid)) ELSE 0

HostImage(T, pid) ==
    [f \in Fields(T) |->
        CASE f = "pbi_pid"       -> pid
          [] f = "pbi_nfiles"    -> Len(HostFDs(pid))
          [] f = "pti_threadnum" -> Len(HostThreads(pid))
          [] OTHER               -> 1]

HostFailure(T) == {[ret |-> r, n |-> 0, image |-> DefaultRecord(T)] : r \in {-1, 0}}

\* proc_pidinfo with a record flavor: the whole record of a live process
HostRecordAnswer(T, pid) ==
    IF pid \in procs
    THEN {[ret |-> SizeOf(T), n |-> SizeOf(T), image |-> HostImage(T, pid)]}
    ELSE HostFailure(T)

\* proc_pidfdinfo: the socket record of a socket descriptor of a live process
HostFDAnswer(T, pid, fd) ==
    IF /\ pid \in procs
       /\ \E i \in 1..Len(HostFDs(pid)) :
             HostFDs(pid)[i].proc_fd = fd /\ HostFDs(pid)[i].proc_fdtype = 2
    THEN {[ret |-> SizeOf(T), n |-> SizeOf(T), image |-> HostSocketImage(pid, fd)]}
    ELSE HostFailure(T)

HostVersionAnswer == {[ret |-> 0, major |-> 1, minor |-> 1]}

\* proc_pidinfo with a list flavor: as many whole elements as fit the buffer
HostListAnswer(T, pid, buffer_size) ==
    IF pid \in procs
    THEN LET m == Min(buffer_size \div SizeOfItem(T), Len(HostItems(T, pid)))
         IN {[ret |-> SizeOfItem(T) * m, n |-> SizeOfItem(T) * m,
              data |-> SubSeq(HostItems(T, pid), 1, m)]}
    ELSE {[ret |-> r, n |-> 0, data |-> <<>>] : r \in {-1, 0}}

HostUid(p) == p % 2

\* the processes a selector matches
HostMatching(proc_types, info) ==
    IF proc_types = ProcAllPIDS THEN procs ELSE {p \in procs : HostUid(p) = info}

\* a set of pids as the kernel lists it: newest first
RECURSIVE Descending(_)
Descending(S) ==
    IF S = {} THEN <<>>
    ELSE LET m == CHOOSE x \in S : \A y \in S : y <= x
         IN <<m>> \o Descending(S \ {m})

\* the raw pid list: the matching pids and the trailing zero entry
HostPidList(proc_types, info) == Descending(HostMatching(proc_types, info)) \o <<0>>

\* proc_listpids with a null buffer: the bytes a fill would write now
HostProbeAnswer(proc_types, info) == {SizeOfU32 * Len(HostPidList(proc_types, info))}

\* proc_listpids with a buffer: as many whole entries as fit
HostPidsAnswer(proc_types, info, size) ==
    LET m == Min(size \div SizeOfU32, Len(HostPidList(proc_types, info)))
    IN {[ret |-> SizeOfU32 * m, n |-> SizeOfU32 * m,
         data |-> SubSeq(HostPidList(proc_types, info), 1, m)]}

\* the path and the name of process p: 'A', then p - 1 times U+00E9
RECURSIVE HostText(_)
HostText(p) == IF p <= 1 THEN <<65>> ELSE HostText(p - 1) \o <<195, 169>>

HostTextAnswer(pid) ==
    IF pid \in procs
    THEN {[ret |-> Len(HostText(pid)), n |-> Len(HostText(pid)), data |-> HostText(pid)]}
    ELSE {[ret |-> r, n |-> 0, data |-> <<>>] : r \in {-1, 0}}

HostNext ==
    \/ \E p \in Pids : spawn(p)
    \/ \E p \in Pids : exit(p)
    \/ \E p \in BindPorts : bind(p)
    \/ /\ pc = "idle"
       /\ \E T \in PIDInfoTypes, pid \in PidArgs :
             \E k \in HostRecordAnswer(T, pid) : pidinfo(T, pid, 0, k)
    \/ /\ pc = "idle"
       /\ \E T \in PIDFDInfoTypes, pid \in PidArgs, fd \in 0..1 :
             \E k \in HostFDAnswer(T, pid, fd) : pidfdinfo(T, pid, fd, k)
    \/ /\ pc = "idle"
       /\ \E k \in HostVersionAnswer : libversion(k)
    \/ /\ pc = "idle"
       /\ \E T \in ListPIDInfoTypes, pid \in PidArgs, max_len \in MaxLens :
             \E k \in HostListAnswer(T, pid, ListBufferSize(T, max_len)) :
                 listpidinfo(T, pid, max_len, k)
    \/ /\ pc = "idle"
       /\ \E proc_types \in ProcTypes :
             \E r \in HostProbeAnswer(proc_types, 0) : listpids_probe(proc_types, 0, r)
    \/ /\ pc = "listpids_fill"
       /\ \E k \in HostPidsAnswer(call.pid, call.arg, PendingFillSize) : listpids_fill(k)
    \/ /\ pc = "idle"
       /\ \E pid \in PidArgs : \E k \in HostTextAnswer(pid) : regionfilename(pid, 0, k)
    \/ /\ pc = "idle"
       /\ \E pid \in PidArgs : \E k \in HostTextAnswer(pid) : pidpath(pid, k)
    \/ /\ pc = "idle"
       /\ \E pid \in PidArgs : \E k \in HostTextAnswer(pid) : name(pid, k)
    \/ drop

HostSpec == Init /\ [][HostNext]_vars

(***************************************************************************)
(* 32-bit integers.  An i32, or a u32 held as the i32 of the same bits, is *)
(* operated on as its 32 bits, the lowest first.                           *)
(***************************************************************************)
BitIndex == 1..32

Bits(x) ==
    [i \in BitIndex |->
        IF i = 32 THEN (IF x < 0 THEN 1 ELSE 0) ELSE (x \div (2 ^ (i - 1))) % 2]

RECURSIVE LowBits(_, _)
LowBits(w, i) == IF i = 0 THEN 0 ELSE (w[i] * (2 ^ (i - 1))) + LowBits(w, i - 1)

\* the integer of 32 bits, two's complement
Int32(w) == IF w[32] = 1 THEN (LowBits(w, 31) - 2147483647) - 1 ELSE LowBits(w, 31)

\* w << n
Shl(w, n) == [i \in BitIndex |-> IF i > n THEN w[i - n] ELSE 0]
\* w >> n of a u32: zeros come in
ShrU32(w, n) == [i \in BitIndex |-> IF i + n <= 32 THEN w[i + n] ELSE 0]
\* w >> n of an i32: the sign bit comes in
ShrI32(w, n) == [i \in BitIndex |-> IF i + n <= 32 THEN w[i + n] ELSE w[32]]
\* w & v
BitAnd(w, v) == [i \in BitIndex |-> w[i] * v[i]]
\* w | v
BitOr(w, v) == [i \in BitIndex |-> IF w[i] + v[i] > 0 THEN 1 ELSE 0]

(***************************************************************************)
(* {} of an integer: its decimal digits.                                   *)
(***************************************************************************)
Digit(d) ==
    CASE d = 0 -> "0" [] d = 1 -> "1" [] d = 2 -> "2" [] d = 3 -> "3" [] d = 4 -> "4"
      [] d = 5 -> "5" [] d = 6 -> "6" [] d = 7 -> "7" [] d = 8 -> "8" [] d = 9 -> "9"

RECURSIVE Natural(_)
Natural(n) == IF n < 10 THEN Digit(n) ELSE Natural(n \div 10) \o Digit(n % 10)

Display(n) == IF n < 0 THEN "-" \o Natural(0 - n) ELSE Natural(n)

(***************************************************************************)
(* The socket decoder of procinfo (src/bin/procinfo.rs, and the example in *)
(* the documentation of pidfdinfo).                                        *)
(***************************************************************************)
\* SocketInfoKind with In taken for Tcp
SocketInfoKind_InIsTcp(value) ==
    CASE value = 0 -> "Generic"
      [] value = 1 -> "Tcp"
      [] value = 2 -> "Tcp"
      [] value = 3 -> "Un"
      [] value = 4 -> "Ndrv"
      [] value = 5 -> "KernEvent"
      [] value = 6 -> "KernCtl"
      [] OTHER     -> "Unknown"

\* impl From<c_int> for SocketInfoKind
SocketInfoKind(value) ==
    CASE value = 0 -> "Generic"
      [] value = 1 -> "In"
      [] value = 2 -> "Tcp"
      [] value = 3 -> "Un"
      [] value = 4 -> "Ndrv"
      [] value = 5 -> "KernEvent"
      [] value = 6 -> "KernCtl"
      [] OTHER     -> "Unknown"

\* port without the change of byte order: the field cut off to 16 bits
port_NoSwap(insi_lport) == Int32(BitAnd(Bits(insi_lport), Bits(65535)))

\* let mut port = 0;
\* port |= insi_lport >> 8 & 0x00ff;  port |= insi_lport << 8 & 0xff00;
port(insi_lport) ==
    LET l  == Bits(insi_lport)
        p0 == Bits(0)
        p1 == BitOr(p0, BitAnd(ShrI32(l, 8), Bits(255)))
        p2 == BitOr(p1, BitAnd(Shl(l, 8), Bits(65280)))
    IN Int32(p2)

\* let mut addr = 0;
\* addr |= s_addr >> 24 & 0x000000ff;  addr |= s_addr >> 8 & 0x0000ff00;
\* addr |= s_addr << 8 & 0x00ff0000;   addr |= s_addr << 24 & 0xff000000;
\* 0xff000000 is the u32 of the bits of -16777216
addr(s_addr) ==
    LET s  == Bits(s_addr)
        a0 == Bits(0)
        a1 == BitOr(a0, BitAnd(ShrU32(s, 24), Bits(255)))
        a2 == BitOr(a1, BitAnd(ShrU32(s, 8), Bits(65280)))
        a3 == BitOr(a2, BitAnd(Shl(s, 8), Bits(16711680)))
        a4 == BitOr(a3, BitAnd(Shl(s, 24), Bits(-16777216)))
    IN a4

\* addr >> n & 0xff
Octet(a, n) == Int32(BitAnd(ShrU32(a, n), Bits(255)))

\* println!("{}.{}.{}.{}:{}", ..)
SocketLine(args) ==
    Display(args[1]) \o "." \o Display(args[2]) \o "." \o Display(args[3])
        \o "." \o Display(args[4]) \o ":" \o Display(args[5])

\* match socket.psi.soi_kind.into() { SocketInfoKind::Tcp => {..}, _ => () }
SocketOutput(socket) ==
    IF SocketInfoKind(socket.soi_kind) = "Tcp"
    THEN LET a    == addr(socket.s_addr)
             args == <<Octet(a, 24), Octet(a, 16), Octet(a, 8), Octet(a, 0),
                       port(socket.insi_lport)>>
         IN [stream |-> "stdout", line |-> SocketLine(args), args |-> args,
             read |-> "pri_tcp"]
    ELSE NoOutput

\* for pid in pids: procinfo after the process at hand
NextPid(p) ==
    [at   |-> IF Len(p.pids) > 1 THEN "name" ELSE "done",
     pids |-> Tail(p.pids),
     fds  |-> <<>>]

\* for fd in ..: procinfo after the descriptor at hand
NextFd(p) == IF Len(p.fds) > 1 THEN [p EXCEPT !.fds = Tail(p.fds)] ELSE NextPid(p)

\* if let Ok(socket) = pidfdinfo::<SocketFDInfo>(pid, fd.proc_fd) { match .. }
procinfo_socket ==
    /\ pc = "returned"
    /\ call.fn = "pidfdinfo"
    /\ prog.at = "fds"
    /\ output' = IF result.kind = "Ok" THEN SocketOutput(result.val) ELSE NoOutput
    /\ prog' = NextFd(prog)
    /\ pc' = "idle"
    /\ UNCHANGED <<call, calls, buffer, result, procs, listener, th, heap>>

(***************************************************************************)
(* The decoder on every socket record: procinfo holding the record that    *)
(* pidfdinfo returned for a socket of its own process.                     *)
(***************************************************************************)
\* discriminants: the seven kinds, and a value on either side of them
SocketKinds == -1..7
\* bytes of a port and of an address
PortBytes == {0, 31, 144, 255}
AddrBytes == {0, 1, 127, 255}
\* the field insi_lport: the two bytes of the port, the first one lowest, and
\* whatever the upper half of the c_int holds
NetPorts == {(b0 + (256 * b1)) + (65536 * hi) : b0 \in PortBytes, b1 \in PortBytes, hi \in {-1, 0, 1}}
\* the field s_addr: the four bytes of the address, the first one lowest
NetAddrs ==
    {((m0 + (256 * m1)) + (65536 * m2)) + (16777216 * (IF m3 >= 128 THEN m3 - 256 ELSE m3)) :
        m0 \in AddrBytes, m1 \in AddrBytes, m2 \in AddrBytes, m3 \in AddrBytes}

SocketRecords ==
    {[soi_protocol |-> IF kind = 2 THEN 6 ELSE 0, soi_kind |-> kind,
      insi_lport |-> lport, s_addr |-> a] :
        kind \in SocketKinds, lport \in NetPorts, a \in NetAddrs}

DecodeInit ==
    /\ procs = Pids
    /\ listener = 65535
    /\ pc = "returned"
    /\ call = [fn |-> "pidfdinfo", T |-> "SocketFDInfo", pid |-> 1, arg |-> 1]
    /\ \E rec \in SocketRecords :
          /\ calls = <<Query("proc_pidfdinfo", 1, PidFDInfoFlavor("SocketFDInfo"), 1,
                             "ptr", SizeOf("SocketFDInfo"), SizeOf("SocketFDInfo"))>>
          /\ buffer = [cap |-> 1, bytes |-> SizeOf("SocketFDInfo"), data |-> <<rec>>,
                       wrote |-> rec]
          /\ result = Ok(rec)
    /\ prog = [at |-> "fds", pids |-> <<1>>, fds |-> <<[proc_fd |-> 1, proc_fdtype |-> 2]>>]
    /\ output = NoOutput
    /\ th = [t \in Threads |-> Idle]
    /\ heap = [a \in Addrs |-> Free]

DecodeNext == procinfo_socket

DecodeSpec == DecodeInit /\ [][DecodeNext]_vars

(***************************************************************************)
(* procinfo's list of processes (src/bin/procinfo.rs, lines 44-95) on the  *)
(* host: processes are created and exit while it runs.  Every library call *)
(* is a step; what procinfo does with the result is the next one.          *)
(***************************************************************************)
\* the max_len procinfo passes to listpidinfo
ProcinfoMaxLen == 4000

\* impl From<u32> for ProcFDType
ProcFDType(value) ==
    CASE value = 0 -> "ATalk"
      [] value = 1 -> "VNode"
      [] value = 2 -> "Socket"
      [] value = 3 -> "PSHM"
      [] value = 4 -> "PSEM"
      [] value = 5 -> "KQueue"
      [] value = 6 -> "Pipe"
      [] value = 7 -> "FSEvents"
      [] OTHER     -> "Unknown"

\* u32::try_into::<i32>()
try_into(value) ==
    IF value <= 2147483647 THEN Ok(value)
    ELSE [kind |-> "Err", val |-> "TryFromIntError"]

\* {} of a String of the bytes 'A' and U+00E9
RECURSIVE Text(_)
Text(s) ==
    IF s = <<>> THEN ""
    ELSE IF s[1] = 65 THEN "A" \o Text(Tail(s))
    ELSE "é" \o Text(SubSeq(s, 3, Len(s)))

Stdout(line) == [stream |-> "stdout", line |-> line, args |-> <<>>, read |-> "none"]
Stderr(line) == [stream |-> "stderr", line |-> line, args |-> <<>>, read |-> "none"]

\* .unwrap() on an Err: the thread panics
Unwrapped == Stderr("thread main panicked: called Result::unwrap() on an Err value")
Panicked == [at |-> "panicked", pids |-> prog.pids, fds |-> prog.fds]

\* the elements of a Vec of length len: those written, and for the others
\* whatever the memory holds
Elements(v, S) ==
    IF v.len <= Len(v.init) THEN {SubSeq(v.init, 1, v.len)}
    ELSE {v.init \o junk : junk \in [1..(v.len - Len(v.init)) -> S]}

\* match listpids(ProcAllPIDS, 0) { Ok(pids) => { println!(..); for pid in pids ..
procinfo_pids ==
    /\ pc = "returned"
    /\ call.fn = "listpids"
    /\ prog.at = "listpids"
    /\ IF result.kind = "Ok"
       THEN /\ output' = Stdout("There are currently " \o Display(result.val.len)
                                   \o " processes active")
            /\ \E pids \in Elements(result.val, PidVals) :
                  prog' = IF pids = <<>> THEN [NoProg EXCEPT !.at = "done"]
                          ELSE [at |-> "name", pids |-> pids, fds |-> <<>>]
       ELSE /\ output' = Stderr("Error: last_os_error")
            /\ prog' = [NoProg EXCEPT !.at = "done"]
    /\ pc' = "idle"
    /\ UNCHANGED <<call, calls, buffer, result, procs, listener, th, heap>>

\* println!("pid: {}, name: {}", pid, name(pid).unwrap());
procinfo_name ==
    /\ pc = "returned"
    /\ call.fn = "name"
    /\ prog.at = "name"
    /\ IF result.kind = "Ok"
       THEN /\ output' = Stdout("pid: " \o Display(call.pid) \o ", name: "
                                   \o Text(result.val))
            /\ prog' = [prog EXCEPT !.at = "listfds"]
       ELSE /\ output' = Unwrapped
            /\ prog' = Panicked
    /\ pc' = "idle"
    /\ UNCHANGED <<call, calls, buffer, result, procs, listener, th, heap>>

\* for fd in listpidinfo::<ListFDs>(pid, 4000).unwrap() {
procinfo_fds ==
    /\ pc = "returned"
    /\ call.fn = "listpidinfo"
    /\ prog.at = "listfds"
    /\ IF result.kind = "Ok"
       THEN /\ output' = NoOutput
            /\ \E fds \in Elements(result.val, ElemVals("ListFDs")) :
                  prog' = IF fds = <<>> THEN NextPid(prog)
                          ELSE [prog EXCEPT !.at = "fds", !.fds = fds]
       ELSE /\ output' = Unwrapped
            /\ prog' = Panicked
    /\ pc' = "idle"
    /\ UNCHANGED <<call, calls, buffer, result, procs, listener, th, heap>>

\* match fd.proc_fdtype.into() { .. _ => () }
procinfo_skip ==
    /\ pc = "idle"
    /\ prog.at = "fds"
    /\ ProcFDType(Head(prog.fds).proc_fdtype) # "Socket"
    /\ output' = NoOutput
    /\ prog' = NextFd(prog)
    /\ UNCHANGED <<pc, call, calls, buffer, result, procs, listener, th, heap>>

ProcinfoNext ==
    \/ \E p \in Pids : spawn(p)
    \/ \E p \in Pids : exit(p)
    \/ /\ pc = "idle"
       /\ prog.at = "listpids"
       /\ \E r \in HostProbeAnswer(ProcAllPIDS, 0) : listpids_probe(ProcAllPIDS, 0, r)
    \/ /\ pc = "listpids_fill"
       /\ \E k \in HostPidsAnswer(call.pid, call.arg, PendingFillSize) : listpids_fill(k)
    \/ procinfo_pids
    \/ /\ pc = "idle"
       /\ prog.at = "name"
       /\ LET pid == try_into(Head(prog.pids))
          IN IF pid.kind = "Ok"
             THEN \E k \in HostTextAnswer(pid.val) : name(pid.val, k)
             ELSE /\ output' = Unwrapped
                  /\ prog' = Panicked
                  /\ UNCHANGED <<pc, call, calls, buffer, result, procs, listener, th, heap>>
    \/ procinfo_name
    \/ /\ pc = "idle"
       /\ prog.at = "listfds"
       /\ \E k \in HostListAnswer("ListFDs", Head(prog.pids),
                                  ListBufferSize("ListFDs", ProcinfoMaxLen)) :
             listpidinfo("ListFDs", Head(prog.pids), ProcinfoMaxLen, k)
    \/ procinfo_fds
    \/ /\ pc = "idle"
       /\ prog.at = "fds"
       /\ ProcFDType(Head(prog.fds).proc_fdtype) = "Socket"
       /\ \E k \in HostFDAnswer("SocketFDInfo", Head(prog.pids), Head(prog.fds).proc_fd) :
             pidfdinfo("SocketFDInfo", Head(prog.pids), Head(prog.fds).proc_fd, k)
    \/ procinfo_socket
    \/ procinfo_skip

ProcinfoSpec == Init /\ [][ProcinfoNext]_vars

(***************************************************************************)
(* Two threads calling pidinfo and listpidinfo at once.  A call is three   *)
(* steps, between which the other thread may run: it allocates its buffer  *)
(* (T::default() on its stack, Vec::with_capacity on the heap), the kernel *)
(* writes through the pointer the call passed, and the call makes its      *)
(* result of what the buffer holds then.                                   *)
(***************************************************************************)
\* a buffer that every call shares: one static address
Allocate_Static(h) == {1}

\* the addresses an allocation may return: those no live buffer is at
Allocate(h) == {a \in Addrs : h[a] = Free}

\* let mut pidinfo = T::default();
thread_pidinfo(t, T) ==
    /\ th[t].pc = "idle"
    /\ \E a \in Allocate(heap) :
          /\ heap' = [heap EXCEPT ![a] = [kind |-> "record", rec |-> DefaultRecord(T),
                                          data |-> <<>>]]
          /\ th' = [th EXCEPT ![t] = [Idle EXCEPT !.pc = "allocated", !.fn = "pidinfo",
                                                  !.T = T, !.ptr = a]]
    /\ UNCHANGED <<pc, call, calls, buffer, result, procs, listener, prog, output>>

\* let mut buffer = Vec::<T::Item>::with_capacity(max_len);
thread_listpidinfo(t, T, max_len) ==
    /\ th[t].pc = "idle"
    /\ listpidinfo_assert(max_len)
    /\ \E a \in Allocate(heap) :
          /\ heap' = [heap EXCEPT ![a] = [kind |-> "list", rec |-> NoRecord, data |-> <<>>]]
          /\ th' = [th EXCEPT ![t] = [Idle EXCEPT !.pc = "allocated", !.fn = "listpidinfo",
                                                  !.T = T, !.arg = max_len, !.ptr = a]]
    /\ UNCHANGED <<pc, call, calls, buffer, result, procs, listener, prog, output>>

\* what the address of a call holds after the kernel wrote its answer k there
Written(fn, T, content, k) ==
    IF fn = "pidinfo"
    THEN [kind |-> "record", rec |-> Overwrite(T, content.rec, k.image, k.n), data |-> <<>>]
    ELSE [kind |-> "list", rec |-> NoRecord, data |-> k.data]

\* ret = proc_pidinfo(pid, flavor, arg, buffer_ptr, buffer_size)
thread_query(t, k) ==
    /\ th[t].pc = "allocated"
    /\ heap' = [heap EXCEPT ![th[t].ptr] = Written(th[t].fn, th[t].T, heap[th[t].ptr], k)]
    /\ th' = [th EXCEPT ![t].pc = "queried", ![t].answer = k]
    /\ UNCHANGED <<pc, call, calls, buffer, result, procs, listener, prog, output>>

\* the result a call makes of its return code and of what its buffer holds
ThreadResult(fn, T, arg, ret, content) ==
    IF fn = "pidinfo"
    THEN RecordResult(ret, content.rec)
    ELSE ListResult(T, ret, Vec(arg, content.data))

\* if ret <= 0 { Err(..) } else { Ok(pidinfo) } / { buffer.truncate(..); Ok(buffer) }
thread_return(t) ==
    /\ th[t].pc = "queried"
    /\ th' = [th EXCEPT ![t].pc = "returned",
                        ![t].result = ThreadResult(th[t].fn, th[t].T, th[t].arg,
                                                   th[t].answer.ret, heap[th[t].ptr])]
    /\ UNCHANGED <<pc, call, calls, buffer, result, procs, listener, prog, output, heap>>

\* the caller drops the result, and the buffer with it
thread_drop(t) ==
    /\ th[t].pc = "returned"
    /\ heap' = [heap EXCEPT ![th[t].ptr] = Free]
    /\ th' = [th EXCEPT ![t] = Idle]
    /\ UNCHANGED <<pc, call, calls, buffer, result, procs, listener, prog, output>>

\* the answers the kernel may give to the query of thread t
ThreadAnswers(t) ==
    IF th[t].fn = "pidinfo"
    THEN AnyRecordAnswer(th[t].T)
    ELSE AnyListAnswer(th[t].T, ListBufferSize(th[t].T, th[t].arg))

ThreadNext ==
    \/ \E t \in Threads, T \in {"BSDInfo", "TaskInfo"} : thread_pidinfo(t, T)
    \/ \E t \in Threads : thread_listpidinfo(t, "ListFDs", MaxElems)
    \/ \E t \in Threads :
          /\ th[t].pc = "allocated"
          /\ \E k \in ThreadAnswers(t) : thread_query(t, k)
    \/ \E t \in Threads : thread_return(t)
    \/ \E t \in Threads : thread_drop(t)

ThreadSpec == Init /\ [][ThreadNext]_vars

(***************************************************************************)
(* Properties.                                                             *)
(***************************************************************************)
IsOsError(res) == res.kind = "Err" /\ res.val = "last_os_error"
IsUtf8Error(res) == res.kind = "Err" /\ res.val = "Other: Invalid UTF-8 sequence"
Returned(fns) == pc = "returned" /\ call.fn \in fns

\* C1: pidinfo and pidfdinfo return an OS error if and only if the kernel's
\* return is <= 0 and Ok(record), the record in the buffer, if and only if it
\* is > 0; a call has no third outcome.
C1_FixedRecordOutcome ==
    call.fn \in {"pidinfo", "pidfdinfo"} =>
        /\ pc = "returned"
        /\ Len(calls) = 1
        /\ result.kind \in {"Ok", "Err"}
        /\ IsOsError(result) <=> calls[1].ret <= 0
        /\ result.kind = "Ok" <=> calls[1].ret > 0
        /\ result.kind = "Ok" => result.val = buffer.data[1]

C1_Witness ==
    /\ Returned({"pidfdinfo"})
    /\ calls[1].ret = 0
    /\ IsOsError(result)

\* C2: libversion returns Ok((major, minor)), the pair the kernel wrote, exactly
\* when the kernel returned 0; every other return, positive or negative, is an
\* OS error.
C2_LibversionZeroIsSuccess ==
    call.fn = "libversion" =>
        /\ pc = "returned"
        /\ result.kind = "Ok" <=> calls[1].ret = 0
        /\ result.kind = "Ok" => result.val = <<buffer.data[1], buffer.data[2]>>
        /\ calls[1].ret # 0 => IsOsError(result)

C2_Witness ==
    /\ Returned({"libversion"})
    /\ calls[1].ret > 0
    /\ IsOsError(result)

\* C3: listpidinfo with a permitted max_len: a negative return is an error, a
\* return of 0 is Ok(empty list), and a return r > 0 is Ok(list) of exactly the
\* first r / element_size (rounded down) elements the kernel wrote, in its order.
C3_ListOutcome ==
    (call.fn = "listpidinfo" /\ call.arg <= PROC_PIDPATHINFO_MAXSIZE) =>
        LET r == calls[1].ret
            k == r \div SizeOfItem(call.T)
        IN /\ pc = "returned"
           /\ r < 0 => IsOsError(result)
           /\ r = 0 => result.kind = "Ok" /\ result.val.len = 0
           /\ r > 0 => /\ result.kind = "Ok"
                       /\ result.val.len = k
                       /\ result.val.init = SubSeq(buffer.data, 1, k)
                       /\ Len(result.val.init) = k

C3_Witness ==
    /\ Returned({"listpidinfo"})
    /\ calls[1].ret % SizeOfItem(call.T) # 0
    /\ result.kind = "Ok"
    /\ result.val.len = 2
    /\ result.val.init[1] # result.val.init[2]

\* C4: a listpidinfo call with maximum length m against a process that has
\* available_count elements returns a list of length <= m, and of length
\* min(m, available_count).
C4_ListLength ==
    (Returned({"listpidinfo"}) /\ result.kind = "Ok") =>
        /\ result.val.len <= call.arg
        /\ result.val.len =
              Min(call.arg, available_count(call.T, call.pid, calls[1].live))

C4_Witness ==
    /\ Returned({"listpidinfo"})
    /\ result.kind = "Ok"
    /\ result.val.len = 2
    /\ call.arg = PROC_PIDPATHINFO_MAXSIZE

\* C5: when the fill query of listpids returns r > 0 bytes, the returned list
\* has r / 4 (rounded down) - 1 entries, 0 when r / 4 is 0: the first entries
\* of the filled buffer, in order.
C5_PidsCount ==
    (Returned({"listpids"}) /\ Len(calls) = 2 /\ calls[2].ret > 0) =>
        LET r == calls[2].ret
            n == Max(r \div 4 - 1, 0)
        IN /\ result.kind = "Ok"
           /\ result.val.len = n
           /\ result.val.init = SubSeq(buffer.data, 1, n)

C5_Witness ==
    /\ Returned({"listpids"})
    /\ Len(calls) = 2
    /\ calls[2].ret \div 4 = 3
    /\ result.val.len = 2
    /\ result.val.init[1] # result.val.init[2]

\* C6: listpids issues the probe query first, with a null buffer of size 0; a
\* probe return <= 0 ends the call with an error and no fill query; otherwise
\* exactly one fill query follows, with the size the probe reported, and a fill
\* return <= 0 is an error too.
C6_TwoPhase ==
    call.fn = "listpids" =>
        /\ Len(calls) \in {1, 2}
        /\ calls[1].fn = "proc_listpids"
        /\ calls[1].buf = "null"
        /\ calls[1].size = 0
        /\ calls[1].ret <= 0 =>
              /\ Len(calls) = 1
              /\ pc = "returned"
              /\ IsOsError(result)
        /\ calls[1].ret > 0 =>
              \/ pc = "listpids_fill" /\ Len(calls) = 1 /\ result.kind = "None"
              \/ /\ pc = "returned"
                 /\ Len(calls) = 2
                 /\ calls[2].fn = "proc_listpids"
                 /\ calls[2].buf = "ptr"
                 /\ calls[2].size = calls[1].ret
                 /\ calls[2].sel = calls[1].sel
                 /\ calls[2].arg = calls[1].arg
                 /\ calls[2].ret <= 0 => IsOsError(result)

C6_Witness ==
    /\ Returned({"listpids"})
    /\ Len(calls) = 2
    /\ calls[2].ret <= 0
    /\ IsOsError(result)

\* C7: on a host that has more than one process while listpids queries it,
\* listpids with the all-processes selector returns Ok with more than one entry.
C7_AllPidsMoreThanOne ==
    (/\ Returned({"listpids"})
     /\ call.pid = ProcAllPIDS
     /\ \A i \in 1..Len(calls) : Cardinality(calls[i].live) > 1) =>
        /\ result.kind = "Ok"
        /\ result.val.len > 1

C7_Witness ==
    /\ Returned({"listpids"})
    /\ call.pid = ProcAllPIDS
    /\ \A i \in 1..Len(calls) : Cardinality(calls[i].live) = 2
    /\ result.kind = "Ok"
    /\ result.val.len = 2

\* C8: a listpidinfo request with max_len above PROC_PIDPATHINFO_MAXSIZE is
\* rejected before any kernel query: no query is issued, no buffer is written
\* and no list, of a smaller length or any other, is returned.
C8_RejectedBeforeQuery ==
    (call.fn = "listpidinfo" /\ call.arg > PROC_PIDPATHINFO_MAXSIZE) =>
        /\ calls = <<>>
        /\ buffer = NoBuffer
        /\ result.kind # "Ok"
        /\ pc # "returned"

C8_Witness ==
    /\ call.fn = "listpidinfo"
    /\ call.arg = PROC_PIDPATHINFO_MAXSIZE + 1
    /\ result = Panic

\* C9: no failure of a core operation is fatal: every call, a listpidinfo call
\* with max_len above the maximum included, returns to its caller with a
\* value or a typed error, and none panics.
C9_NoFailureIsFatal ==
    call.fn # "none" =>
        \/ pc = "listpids_fill"
        \/ pc = "returned" /\ result.kind \in {"Ok", "Err"}

\* the text of the model's alphabet that is well-formed UTF-8: 'A' and U+00E9
RECURSIVE WellFormed(_)
WellFormed(s) ==
    \/ s = <<>>
    \/ s[1] = 65 /\ WellFormed(Tail(s))
    \/ Len(s) >= 2 /\ s[1] = 195 /\ s[2] = 169 /\ WellFormed(SubSeq(s, 3, Len(s)))

\* C10: a text query whose kernel call returned r > 0 returns Ok(text), text
\* being exactly the first r bytes of the buffer and well-formed UTF-8, or, when
\* those bytes are not well-formed, a decode error that is not the OS error;
\* it never returns other bytes.
C10_TextOrDecodeError ==
    (Returned({"pidpath", "name", "regionfilename"}) /\ calls[1].ret > 0) =>
        LET text == SubSeq(buffer.data, 1, calls[1].ret)
        IN IF WellFormed(text)
           THEN result.kind = "Ok" /\ result.val = text
           ELSE IsUtf8Error(result) /\ ~IsOsError(result)

C10_Witness ==
    /\ Returned({"name"})
    /\ calls[1].ret = 2
    /\ buffer.data = <<65, 195, 169>>
    /\ IsUtf8Error(result)

\* C11: pidpath on an invalid ProcessId such as -1, the kernel returning <= 0,
\* returns the OS error to its caller: it returns no path and does not panic.
C11_InvalidPidIsOsError ==
    (call.fn = "pidpath" /\ call.pid \notin Pids /\ calls[1].ret <= 0) =>
        /\ pc = "returned"
        /\ Len(calls) = 1
        /\ IsOsError(result)
        /\ result.kind # "Ok"
        /\ result # Panic

C11_Witness ==
    /\ Returned({"pidpath"})
    /\ call.pid = -1
    /\ calls[1].ret = 0
    /\ IsOsError(result)

\* procinfo has put the record that pidfdinfo returned through its decoder
Decoded == pc = "idle" /\ call.fn = "pidfdinfo" /\ result.kind = "Ok"

\* C12: the TCP arm prints the port made of the two bytes of insi_lport, the
\* first one (the lowest of the field) as the high byte, and the four bytes of
\* s_addr in their order in memory, for every port and every address; the port
\* is in 0..65535 and every octet in 0..255; the bytes 0x1F 0x90 and
\* 127, 0, 0, 1 are printed as 127.0.0.1:8080.
C12_ByteSwap ==
    (Decoded /\ result.val.soi_kind = 2) =>
        LET l  == result.val.insi_lport
            s  == result.val.s_addr
            b0 == l % 256
            b1 == (l \div 256) % 256
            m0 == s % 256
            m1 == (s \div 256) % 256
            m2 == (s \div 65536) % 256
            m3 == (s \div 16777216) % 256
        IN /\ output.stream = "stdout"
           /\ output.args = <<m0, m1, m2, m3, (256 * b0) + b1>>
           /\ \A i \in 1..4 : output.args[i] \in 0..255
           /\ output.args[5] \in 0..65535
           /\ output.line = SocketLine(<<m0, m1, m2, m3, (256 * b0) + b1>>)
           /\ (<<b0, b1>> = <<31, 144>> /\ <<m0, m1, m2, m3>> = <<127, 0, 0, 1>>) =>
                 output.line = "127.0.0.1:8080"

C12_Witness ==
    /\ Decoded
    /\ result.val.insi_lport = 36895
    /\ result.val.s_addr = 16777343
    /\ output.line = "127.0.0.1:8080"

\* C13: the decoder reads the union through its TCP variant exactly when
\* soi_kind is 2; for every other value, those of the other six kinds and
\* those outside 0..6 alike, it reads nothing of the union, prints nothing, to
\* stdout or stderr, and goes on to the next descriptor without a panic.
C13_TcpOnly ==
    Decoded =>
        /\ output.read = "pri_tcp" <=> result.val.soi_kind = 2
        /\ output.read \in {"pri_tcp", "none"}
        /\ result.val.soi_kind # 2 =>
              /\ output.read = "none"
              /\ output.stream = "none"
              /\ output.line = ""
              /\ output.args = <<>>
        /\ prog.at # "panicked"

C13_Witness ==
    /\ Decoded
    /\ result.val.soi_kind = 7
    /\ result.val.insi_lport = 36895
    /\ output = NoOutput
    /\ prog.at = "done"

\* C14: the record a successful pidinfo returns is the default record with
\* the bytes the kernel wrote over it: a field within the written bytes holds
\* what the kernel wrote there, so pbi_pid holds p when the kernel wrote p,
\* and a field beyond the written bytes holds its default, zero.
C14_DefaultOverwritten ==
    (Returned({"pidinfo"}) /\ result.kind = "Ok") =>
        /\ DOMAIN result.val = Fields(call.T)
        /\ \A f \in Fields(call.T) :
              IF FieldOffset(call.T, f) + 4 <= buffer.bytes
              THEN result.val[f] = buffer.wrote[f]
              ELSE result.val[f] = 0
        /\ (/\ call.T = "BSDInfo"
            /\ buffer.bytes = SizeOf("BSDInfo")
            /\ buffer.wrote.pbi_pid = call.pid) => result.val.pbi_pid = call.pid

C14_Witness ==
    /\ Returned({"pidinfo"})
    /\ result.kind = "Ok"
    /\ call.T = "BSDInfo"
    /\ call.pid = 2
    /\ buffer.bytes = 16
    /\ result.val.pbi_pid = 2
    /\ buffer.wrote.pbi_nfiles = 3
    /\ result.val.pbi_nfiles = 0

\* the result of a call that runs alone and is answered k
Alone(fn, T, arg, k) ==
    IF fn = "pidinfo"
    THEN RecordResult(k.ret, Overwrite(T, DefaultRecord(T), k.image, k.n))
    ELSE ListResult(T, k.ret, Vec(arg, k.data))

\* C15: two threads run pidinfo and listpidinfo at once, their steps
\* interleaved in any order: the buffers of two calls in progress are never the
\* same memory, the buffer of a call holds what that call's own query wrote and
\* nothing of the other's, and each call returns the result it would return
\* alone, given the same answer of the kernel.
C15_ThreadsIndependent ==
    /\ \A t, u \in Threads :
          (t # u /\ th[t].pc # "idle" /\ th[u].pc # "idle") => th[t].ptr # th[u].ptr
    /\ \A t \in Threads :
          /\ th[t].pc = "allocated" =>
                /\ heap[th[t].ptr].data = <<>>
                /\ th[t].fn = "pidinfo" => heap[th[t].ptr].rec = DefaultRecord(th[t].T)
          /\ th[t].pc \in {"queried", "returned"} =>
                IF th[t].fn = "pidinfo"
                THEN heap[th[t].ptr].rec =
                        Overwrite(th[t].T, DefaultRecord(th[t].T),
                                  th[t].answer.image, th[t].answer.n)
                ELSE heap[th[t].ptr].data = th[t].answer.data
          /\ th[t].pc = "returned" =>
                th[t].result = Alone(th[t].fn, th[t].T, th[t].arg, th[t].answer)

C15_Witness ==
    /\ th[1].pc = "returned"
    /\ th[1].fn = "pidinfo"
    /\ th[1].result.kind = "Ok"
    /\ th[2].pc = "queried"
    /\ th[2].fn = "listpidinfo"
    /\ th[2].answer.data # <<>>

\* C16: a process that exits after listpids reported its pid and before the
\* query procinfo makes on that pid (name, listpidinfo, pidfdinfo) makes that
\* query fail; the failure is returned to procinfo and is not fatal: procinfo
\* does not panic.
C16_ExitIsTolerated ==
    (/\ pc = "idle"
     /\ call.fn \in {"name", "listpidinfo", "pidfdinfo"}
     /\ call.pid \notin calls[1].live) =>
        /\ result.kind \in {"Ok", "Err"}
        /\ prog.at # "panicked"

OwnListenerQueried == Returned({"pidfdinfo"}) /\ call.pid = Self /\ call.arg = 1

\* C18 as stated: for the caller's TCP socket bound to port p, the record's
\* soi_kind maps to Tcp, its soi_protocol is IPPROTO_TCP and insi_lport, read
\* as it stands, equals p.
C18_PortReadDirectly ==
    OwnListenerQueried =>
        /\ result.kind = "Ok"
        /\ SocketInfoKind(result.val.soi_kind) = "Tcp"
        /\ result.val.soi_protocol = 6
        /\ result.val.insi_lport = listener

\* C18 amended: for the caller's TCP socket bound to port p, the record's
\* soi_kind maps to Tcp, its soi_protocol is IPPROTO_TCP and insi_lport holds
\* p in network byte order: read as it stands it is p with its two bytes
\* swapped, and swapping them, as the decoder does, gives p.
C18_PortInNetworkOrder ==
    OwnListenerQueried =>
        /\ result.kind = "Ok"
        /\ SocketInfoKind(result.val.soi_kind) = "Tcp"
        /\ result.val.soi_protocol = 6
        /\ result.val.insi_lport = (256 * (listener % 256)) + (listener \div 256)
        /\ port(result.val.insi_lport) = listener
        /\ (listener % 256 = listener \div 256) <=> result.val.insi_lport = listener

C18_Witness ==
    /\ OwnListenerQueried
    /\ listener = 8080
    /\ result.kind = "Ok"
    /\ result.val.insi_lport = 36895

\* C19: in listpids, whatever positive size b the probe returned, the size
\* passed to the fill query is at most the bytes allocated, 4 bytes for each of
\* the b / 4 (rounded down) elements, so the kernel is never allowed to write,
\* and never writes, past the allocation.
C19_FillWithinAllocation ==
    (call.fn = "listpids" /\ Len(calls) = 2) =>
        /\ calls[2].size <= 4 * buffer.cap
        /\ buffer.bytes <= 4 * buffer.cap

\* C20: processes are created and exit between the probe and the fill query
\* of listpids; the length of the list it returns is never above the capacity
\* allocated from the probe, and every element within that length was written
\* by the kernel, which writes no more than the size it was passed.
C20_LengthWithinWritten ==
    (Returned({"listpids"}) /\ result.kind = "Ok") =>
        /\ buffer.cap = calls[1].ret \div 4
        /\ buffer.bytes <= calls[2].size
        /\ result.val.len <= buffer.cap
        /\ result.val.len <= buffer.bytes \div 4
        /\ result.val.len = Len(result.val.init)
        /\ \A i \in 1..result.val.len : result.val.init[i] = buffer.data[i]

\* a process exited between the two queries
C20_Witness ==
    /\ Returned({"listpids"})
    /\ result.kind = "Ok"
    /\ Cardinality(calls[1].live) = 3
    /\ Cardinality(calls[2].live) = 2
    /\ buffer.cap = 4
    /\ result.val.len = 2
====
